---------------------------- MODULE Spec2Model ----------------------------
(***************************************************************************)
(* A model of the CSV standardization pipeline: the YAML-backed Config     *)
(* (src/src/utils/config.py), the table I/O helpers (src/src/utils/file.py)*)
(* and the schema standardizer and batch run (src/src/process_data.py).    *)
(*                                                                         *)
(* Four specifications share the variables:                                *)
(*   SpecCfg    Config.get on nested mappings                              *)
(*   SpecStd    standardize_columns on tables and column policies          *)
(*   SpecFile   get_dataframe / get_all_dataframes / combine_dataframes    *)
(*   SpecBatch  process_all_datasets, step by step                         *)
(***************************************************************************)
EXTENDS Integers, Sequences, FiniteSets, TLC

VARIABLES
    config,      \* Config._config: the loaded YAML document
    raw,         \* the directory a path names: kind and, for a directory, its listing
    out,         \* the processed-data directory: kind and the files written in it
    pc,          \* position of process_all_datasets / process_dataset
    csv_files,   \* process_all_datasets: the enumerated .csv names
    idx,         \* process_all_datasets: position of the for loop in csv_files
    successful,  \* process_all_datasets: success counter
    failed,      \* process_all_datasets: failure counter
    log,         \* records emitted through the logger, in order
    df,          \* process_dataset: the table being processed
    exc,         \* the exception in flight, or NoExc
    steps,       \* history: how the try body of process_dataset ended for each file
    reads,       \* history: the paths handed to load_csv, in order
    stdout,      \* lines printed by get_all_dataframes
    call,        \* the invocation of a function under check
    ret          \* its outcome

vars == <<config, raw, out, pc, csv_files, idx, successful, failed, log, df,
          exc, steps, reads, stdout, call, ret>>

batchVars == <<pc, csv_files, idx, successful, failed, log, df, exc, steps>>

(***************************************************************************)
(* Bounds of the model.                                                    *)
(***************************************************************************)
MaxKeyLen == 3
MaxFiles == 3
MaxRows == 2
MaxCols == 3
MaxDrop == 1
MaxRename == 2
MaxTarget == 2

Range(s) == {s[i] : i \in DOMAIN s}

SeqsUpTo(S, n) == UNION {[1..k -> S] : k \in 0..n}

DistinctSeqsUpTo(S, n) ==
    {s \in SeqsUpTo(S, n) : \A i, j \in DOMAIN s : s[i] = s[j] => i = j}

(***************************************************************************)
(* YAML values.  Every value carries its Python type; a mapping is a       *)
(* function from its keys to values.                                       *)
(***************************************************************************)
VNone == [t |-> "none"]
VBool(b) == [t |-> "bool", b |-> b]
VInt(n) == [t |-> "int", n |-> n]
VStr(s) == [t |-> "str", s |-> s]
VList(l) == [t |-> "list", l |-> l]
VDict(m) == [t |-> "dict", m |-> m]

IsDict(v) == v.t = "dict"

\* bool(value)
Truthy(v) ==
    CASE v.t = "none" -> FALSE
      [] v.t = "bool" -> v.b
      [] v.t = "int"  -> v.n # 0
      [] v.t = "str"  -> v.s # ""
      [] v.t = "list" -> v.l # <<>>
      [] v.t = "dict" -> DOMAIN v.m # {}

\* dict.get(k): None for a key that is not there
DictGet(d, k) == IF k \in DOMAIN d.m THEN d.m[k] ELSE VNone

(***************************************************************************)
(* Config.get(key, default).  keys is key.split("."): the segments of the  *)
(* dotted key, never empty.                                                *)
(***************************************************************************)
RECURSIVE Walk(_, _, _)
WalkFalsyAsMissing(value, keys, default) ==
    IF keys = <<>> THEN value
    ELSE IF IsDict(value)
         THEN LET v == DictGet(value, Head(keys))
              IN  IF ~Truthy(v) THEN default
                  ELSE Walk(v, Tail(keys), default)
         ELSE default

Walk(value, keys, default) ==
    IF keys = <<>> THEN value
    ELSE IF IsDict(value)
         THEN LET v == DictGet(value, Head(keys))
              IN  IF v = VNone THEN default
                  ELSE Walk(v, Tail(keys), default)
         ELSE default

Get(cfg, keys, default) == Walk(cfg, keys, default)

(***************************************************************************)
(* Typed accessors of Config.                                              *)
(***************************************************************************)
\* Config.continue_on_error
ContinueOnError(cfg) ==
    Truthy(Get(cfg, <<"processing", "continue_on_error">>, VBool(TRUE)))

(***************************************************************************)
(* Outcomes of a call.                                                     *)
(***************************************************************************)
NoRet == [kind |-> "none"]
Return(v) == [kind |-> "return", value |-> v]
Raise(e) == [kind |-> "raise", exc |-> e]
NoExc == [type |-> "none"]

IdleBatch ==
    /\ pc = "idle" /\ csv_files = <<>> /\ idx = 0 /\ successful = 0
    /\ failed = 0 /\ log = <<>> /\ df = NoRet /\ exc = NoExc /\ steps = <<>>

IdleFs ==
    /\ raw = [kind |-> "missing"] /\ out = [kind |-> "missing"]
    /\ reads = <<>> /\ stdout = <<>>

(***************************************************************************)
(* SpecCfg: Config.get and Config.continue_on_error over YAML documents of *)
(* nesting depth two.                                                      *)
(***************************************************************************)
CfgKeys == {"processing", "continue_on_error"}

Leaves == {VNone, VBool(FALSE), VInt(0), VStr(""), VList(<<>>), VStr("x")}

DictsOver(V) == {VDict(m) : m \in UNION {[S -> V] : S \in SUBSET CfgKeys}}

CfgDocs == DictsOver(Leaves \cup DictsOver(Leaves)) \cup {VStr("x")}

CfgDefaults == {VNone, VStr("dflt")}

CfgCalls ==
    {[op |-> "get", key |-> k, default |-> d] :
        k \in SeqsUpTo(CfgKeys, MaxKeyLen) \ {<<>>}, d \in CfgDefaults}
    \cup {[op |-> "continue_on_error"]}

InitCfg ==
    /\ config \in CfgDocs
    /\ call \in CfgCalls
    /\ ret = NoRet
    /\ IdleBatch /\ IdleFs

CfgGet ==
    /\ call.op = "get" /\ ret = NoRet
    /\ ret' = Return(Get(config, call.key, call.default))
    /\ UNCHANGED <<config, raw, out, reads, stdout, call>>
    /\ UNCHANGED batchVars

CfgContinueOnError ==
    /\ call.op = "continue_on_error" /\ ret = NoRet
    /\ ret' = Return(VBool(ContinueOnError(config)))
    /\ UNCHANGED <<config, raw, out, reads, stdout, call>>
    /\ UNCHANGED batchVars

NextCfg == CfgGet \/ CfgContinueOnError

SpecCfg == InitCfg /\ [][NextCfg]_vars

\* The values met along the path: PathVals(cfg, keys)[i] is the value stored
\* under the first i segments, Absent once a segment is missing or a
\* non-mapping would be indexed.
Absent == [t |-> "absent"]

PathVals(cfg, keys) ==
    LET f[i \in 0..Len(keys)] ==
            IF i = 0 THEN cfg
            ELSE IF f[i - 1].t = "dict" /\ keys[i] \in DOMAIN f[i - 1].m
                 THEN f[i - 1].m[keys[i]]
                 ELSE Absent
    IN  f

GetReturned == call.op = "get" /\ ret.kind = "return"

\* C10 as stated: get returns default exactly when a segment is missing or a
\* non-mapping would be indexed further, and otherwise the value stored at
\* the full path, whatever it is.
C10_AsStated ==
    GetReturned =>
        LET p == PathVals(config, call.key)
            n == Len(call.key)
        IN  IF \E i \in 1..n : p[i] = Absent
            THEN ret.value = call.default
            ELSE ret.value = p[n]

\* C10 (amended): get returns default as soon as a segment is missing, is
\* stored as null, or a non-mapping would be indexed further; otherwise it
\* returns the value stored at the full path, falsy values (false, 0, empty
\* list, empty string) included, and continue_on_error stored as false reads
\* as false.
C10_Get ==
    /\ GetReturned =>
        LET p == PathVals(config, call.key)
            n == Len(call.key)
        IN  IF \E i \in 1..n : p[i] \in {Absent, VNone}
            THEN ret.value = call.default
            ELSE ret.value = p[n]
    /\ (call.op = "continue_on_error" /\ ret.kind = "return") =>
        LET p == PathVals(config, <<"processing", "continue_on_error">>)
        IN  (p[2] = VBool(FALSE)) => (ret.value = VBool(FALSE))

\* A falsy value stored two levels down is returned although a default is given.
C10_Witness ==
    /\ GetReturned
    /\ Len(call.key) = 2
    /\ call.default = VStr("dflt")
    /\ PathVals(config, call.key)[2] = VBool(FALSE)
    /\ ret.value = VBool(FALSE)

(***************************************************************************)
(* Tables.  A table is its columns in order, each a name and its cells,    *)
(* and its row index.  Column names may repeat (pandas allows it).         *)
(***************************************************************************)
ColumnNames(cols) == [i \in DOMAIN cols |-> cols[i].name]

\* df.drop(col, axis=1): every column carrying the label goes
DropLabel(cols, col) == SelectSeq(cols, LAMBDA c : c.name # col)

\* the loop over columns_to_drop (process_data.py:67-70) and what it logs
RECURSIVE DropColumns(_, _)
DropColumns(cols, drop) ==
    IF drop = <<>> THEN cols
    ELSE IF Head(drop) \in Range(ColumnNames(cols))
         THEN DropColumns(DropLabel(cols, Head(drop)), Tail(drop))
         ELSE DropColumns(cols, Tail(drop))

RECURSIVE DropLog(_, _)
DropLog(cols, drop) ==
    IF drop = <<>> THEN <<>>
    ELSE IF Head(drop) \in Range(ColumnNames(cols))
         THEN <<[level |-> "info", msg |-> "Dropped", col |-> Head(drop)]>>
              \o DropLog(DropLabel(cols, Head(drop)), Tail(drop))
         ELSE DropLog(cols, Tail(drop))

\* A rename mapping: the YAML mapping old -> new with its items in file order.
RenameDict(pairs) ==
    [t |-> "dict",
     m |-> [o \in {pairs[i][1] : i \in DOMAIN pairs} |->
               VStr(pairs[CHOOSE i \in DOMAIN pairs : pairs[i][1] = o][2])],
     items |-> pairs]

\* Config.target_columns, Config.columns_to_drop, Config.column_rename_map
TargetColumns(cfg) ==
    LET result == Get(cfg, <<"columns", "target">>, VList(<<>>))
    IN  IF result.t = "list" THEN result.l ELSE <<>>

ColumnsToDrop(cfg) ==
    LET result == Get(cfg, <<"columns", "drop">>, VList(<<>>))
    IN  IF result.t = "list" THEN result.l ELSE <<>>

ColumnRenameMap(cfg) ==
    LET result == Get(cfg, <<"columns", "rename">>, RenameDict(<<>>))
    IN  IF result.t = "dict" THEN result ELSE RenameDict(<<>>)

\* df.rename(columns=rename_map): every label that is a key of the mapping
\* is replaced by its value, all at once
RenameColumns(cols, rename_map) ==
    [i \in DOMAIN cols |->
        IF cols[i].name \in DOMAIN rename_map.m
        THEN [cols[i] EXCEPT !.name = rename_map.m[cols[i].name].s]
        ELSE cols[i]]

\* the info records of the rename step (process_data.py:76-78): one per item
\* whose old name is a column of df, the table as it was passed in
RenameLog(df_cols, rename_map) ==
    LET logged == SelectSeq(rename_map.items,
                            LAMBDA it : it[1] \in Range(ColumnNames(df_cols)))
    IN  [i \in DOMAIN logged |->
            [level |-> "info", msg |-> "Renamed",
             old |-> logged[i][1], new |-> logged[i][2]]]

\* df_processed[target_columns]: for each target label in order, every
\* column carrying it, in column order
RECURSIVE SelectColumns(_, _)
SelectColumns(cols, target) ==
    IF target = <<>> THEN <<>>
    ELSE SelectSeq(cols, LAMBDA c : c.name = Head(target))
         \o SelectColumns(cols, Tail(target))

\* df_processed after the drop step and the rename step
AfterDrop(table, cfg) == DropColumns(table.cols, ColumnsToDrop(cfg))

AfterRename(table, cfg) ==
    IF Truthy(ColumnRenameMap(cfg))
    THEN RenameColumns(AfterDrop(table, cfg), ColumnRenameMap(cfg))
    ELSE AfterDrop(table, cfg)

\* set(target_columns) - set(df_processed.columns)
MissingBeforeRename(table, cfg) ==
    Range(TargetColumns(cfg)) \ Range(ColumnNames(AfterDrop(table, cfg)))

MissingColumns(table, cfg) ==
    Range(TargetColumns(cfg)) \ Range(ColumnNames(AfterRename(table, cfg)))

MissingColumnsError(missing) ==
    [type |-> "ValueError", msg |-> "Missing required columns",
     missing |-> missing]

\* standardize_columns(df, config, logger): its outcome and what it logs
StandardizeColumns(table, cfg) ==
    LET missing == MissingColumns(table, cfg)
        steplog == DropLog(table.cols, ColumnsToDrop(cfg))
                   \o (IF Truthy(ColumnRenameMap(cfg))
                       THEN RenameLog(table.cols, ColumnRenameMap(cfg))
                       ELSE <<>>)
    IN  IF missing # {}
        THEN [outcome |-> Raise(MissingColumnsError(missing)),
              log |-> steplog \o <<[level |-> "error",
                                    msg |-> "Missing required columns",
                                    missing |-> missing]>>]
        ELSE [outcome |->
                 Return([table EXCEPT
                     !.cols = SelectColumns(AfterRename(table, cfg),
                                            TargetColumns(cfg))]),
              log |-> steplog]

(***************************************************************************)
(* The file system and pd.read_csv.  A directory is its listing, in the    *)
(* order os.listdir returns it; an entry is a name (stem and extension)    *)
(* and what the file holds.                                                *)
(***************************************************************************)
\* The table pd.read_csv builds from a header and nrows data rows of the
\* file src; the cell of column c in row r is written <<src, c, r>>.  The
\* row index is 0..nrows-1.
CsvTable(src, header, nrows) ==
    [cols |-> [i \in DOMAIN header |->
                  [name |-> header[i],
                   vals |-> [r \in 1..nrows |-> <<src, header[i], r>>]]],
     index |-> [r \in 1..nrows |-> r - 1]]

NRows(table) == Len(table.index)

\* f.endswith(".csv")
EndsWithCsv(f) == f.ext = ".csv"

\* os.path.exists(dir), os.path.isdir(dir)
PathExists(node) == node.kind # "missing"
PathIsDir(node) == node.kind = "dir"

\* os.path.join(dir, f)
JoinPath(dir, f) == <<dir, f>>

Error(type, msg, path) == [type |-> type, msg |-> msg, path |-> path]

\* load_csv(path), path = dir/f, node being what dir names
LoadCsv(node, dir, f) ==
    LET path == JoinPath(dir, f)
    IN  IF node.kind = "dir" /\ \E i \in DOMAIN node.entries : node.entries[i].name = f
        THEN LET e == node.entries[CHOOSE i \in DOMAIN node.entries :
                                        node.entries[i].name = f]
             IN  CASE e.content.kind = "csv" ->
                        Return(CsvTable(f.stem, e.content.header, e.content.nrows))
                   [] e.content.kind = "empty" ->
                        Raise(Error("EmptyDataError", "File is empty", path))
                   [] e.content.kind = "malformed" ->
                        Raise(Error("ParserError", "Parsing error in file", path))
        ELSE Raise(Error("FileNotFoundError", "File not found", path))

\* get_dataframe(filename, dir): its outcome and the paths it had load_csv read
GetDataframeNoDirCheck(filename, dir, node) ==
    [outcome |-> LoadCsv(node, dir, filename),
     reads |-> <<JoinPath(dir, filename)>>]

GetDataframe(filename, dir, node) ==
    IF ~PathExists(node)
    THEN [outcome |-> Raise(Error("FileNotFoundError", "Directory not found", dir)),
          reads |-> <<>>]
    ELSE IF ~PathIsDir(node)
    THEN [outcome |-> Raise(Error("NotADirectoryError", "Path is not a directory", dir)),
          reads |-> <<>>]
    ELSE [outcome |-> LoadCsv(node, dir, filename),
          reads |-> <<JoinPath(dir, filename)>>]

\* the loop of get_all_dataframes over os.listdir(dir) (file.py:90-98):
\* the tables appended, the paths read and the warnings printed
RECURSIVE LoadAllStopAtFailure(_, _, _)
LoadAllStopAtFailure(listing, dir, node) ==
    IF listing = <<>> THEN [dataframes |-> <<>>, reads |-> <<>>, stdout |-> <<>>]
    ELSE LET f == Head(listing)
             r == LoadCsv(node, dir, f)
             rest == LoadAllStopAtFailure(Tail(listing), dir, node)
         IN  IF ~EndsWithCsv(f) THEN rest
             ELSE IF r.kind = "return"
             THEN [dataframes |-> <<r.value>> \o rest.dataframes,
                   reads |-> <<JoinPath(dir, f)>> \o rest.reads,
                   stdout |-> rest.stdout]
             ELSE [dataframes |-> <<>>, reads |-> <<JoinPath(dir, f)>>,
                   stdout |-> <<>>]

RECURSIVE LoadAll(_, _, _)
LoadAll(listing, dir, node) ==
    IF listing = <<>> THEN [dataframes |-> <<>>, reads |-> <<>>, stdout |-> <<>>]
    ELSE LET f == Head(listing)
             r == LoadCsv(node, dir, f)
             rest == LoadAll(Tail(listing), dir, node)
         IN  IF ~EndsWithCsv(f) THEN rest
             ELSE IF r.kind = "return"
             THEN [dataframes |-> <<r.value>> \o rest.dataframes,
                   reads |-> <<JoinPath(dir, f)>> \o rest.reads,
                   stdout |-> rest.stdout]
             ELSE [dataframes |-> rest.dataframes,
                   reads |-> <<JoinPath(dir, f)>> \o rest.reads,
                   stdout |-> <<[msg |-> "Warning: Failed to load", file |-> f,
                                 exc |-> r.exc]>> \o rest.stdout]

\* os.listdir(dir) of a directory
ListDir(node) == [i \in DOMAIN node.entries |-> node.entries[i].name]

\* get_all_dataframes(dir)
GetAllDataframes(dir, node) ==
    IF ~PathExists(node)
    THEN [outcome |-> Raise(Error("FileNotFoundError", "Directory not found", dir)),
          reads |-> <<>>, stdout |-> <<>>]
    ELSE IF ~PathIsDir(node)
    THEN [outcome |-> Raise(Error("NotADirectoryError", "Path is not a directory", dir)),
          reads |-> <<>>, stdout |-> <<>>]
    ELSE LET all == LoadAll(ListDir(node), dir, node)
         IN  [outcome |-> Return(all.dataframes), reads |-> all.reads,
              stdout |-> all.stdout]

\* pd.concat(dataframes, ignore_index=ignore_index): rows stacked in list
\* order; the columns are the union of the tables' columns in order of first
\* appearance, a table without a column contributing NaN cells; the row
\* index is renumbered 0..N-1 or is the tables' indices one after the other
NaN == <<"", "NaN", 0>>

RECURSIVE UnionColumnNames(_)
UnionColumnNames(tables) ==
    IF tables = <<>> THEN <<>>
    ELSE LET first == ColumnNames(Head(tables).cols)
         IN  first \o SelectSeq(UnionColumnNames(Tail(tables)),
                                LAMBDA n : n \notin Range(first))

CellsOf(table, n) ==
    IF \E i \in DOMAIN table.cols : table.cols[i].name = n
    THEN table.cols[CHOOSE i \in DOMAIN table.cols : table.cols[i].name = n].vals
    ELSE [r \in 1..NRows(table) |-> NaN]

RECURSIVE StackCells(_, _)
StackCells(tables, n) ==
    IF tables = <<>> THEN <<>>
    ELSE CellsOf(Head(tables), n) \o StackCells(Tail(tables), n)

RECURSIVE StackIndex(_)
StackIndex(tables) ==
    IF tables = <<>> THEN <<>>
    ELSE Head(tables).index \o StackIndex(Tail(tables))

ConcatKeepingIndex(tables, ignore_index) ==
    LET names == UnionColumnNames(tables)
    IN  [cols |-> [i \in DOMAIN names |->
                      [name |-> names[i], vals |-> StackCells(tables, names[i])]],
         index |-> StackIndex(tables)]

Concat(tables, ignore_index) ==
    LET names == UnionColumnNames(tables)
        stacked == StackIndex(tables)
    IN  [cols |-> [i \in DOMAIN names |->
                      [name |-> names[i], vals |-> StackCells(tables, names[i])]],
         index |-> IF ignore_index
                   THEN [r \in 1..Len(stacked) |-> r - 1]
                   ELSE stacked]

\* combine_dataframes(dir, ignore_index)
CombineDataframes(dir, node, ignore_index) ==
    LET all == GetAllDataframes(dir, node)
    IN  IF all.outcome.kind = "raise" THEN all
        ELSE IF all.outcome.value = <<>>
        THEN [all EXCEPT !.outcome = Return(VNone)]
        ELSE [all EXCEPT !.outcome = Return(Concat(all.outcome.value, ignore_index))]

(***************************************************************************)
(* SpecFile: get_dataframe, get_all_dataframes and combine_dataframes on a *)
(* path that is missing, a file, or a directory of up to MaxFiles entries. *)
(***************************************************************************)
FileName(stem, ext) == [stem |-> stem, ext |-> ext]

FileNames ==
    {FileName("a", ".csv"), FileName("b", ".csv"), FileName("c", ".csv"),
     FileName("notes", ".txt")}

CsvContent(header, nrows) == [kind |-> "csv", header |-> header, nrows |-> nrows]

FileContents ==
    {CsvContent(<<"A", "B">>, n) : n \in 0..MaxRows}
    \cup {CsvContent(<<"B", "C">>, 1), [kind |-> "empty"], [kind |-> "malformed"]}

DirNodes(contents) ==
    {[kind |-> "dir", entries |-> e] :
        e \in {l \in SeqsUpTo([name : FileNames, content : contents], MaxFiles) :
                  \A i, j \in DOMAIN l : l[i].name = l[j].name => i = j}}

FileCalls ==
    {[op |-> "get_dataframe", filename |-> f, dir |-> "data"] : f \in FileNames}
    \cup {[op |-> "get_all_dataframes", dir |-> "data"]}
    \cup {[op |-> "combine_dataframes", dir |-> "data", ignore_index |-> b] :
             b \in BOOLEAN}

FileConfigs ==
    {VDict([processing |-> VDict([continue_on_error |-> VBool(b)])]) :
        b \in BOOLEAN}

InitFile ==
    /\ config \in FileConfigs
    /\ raw \in {[kind |-> "missing"], [kind |-> "file"]} \cup DirNodes(FileContents)
    /\ out = [kind |-> "missing"]
    /\ call \in FileCalls
    /\ ret = NoRet /\ reads = <<>> /\ stdout = <<>>
    /\ IdleBatch

FileGetDataframe ==
    /\ call.op = "get_dataframe" /\ ret = NoRet
    /\ LET r == GetDataframe(call.filename, call.dir, raw)
       IN  ret' = r.outcome /\ reads' = reads \o r.reads
    /\ UNCHANGED <<config, raw, out, stdout, call>>
    /\ UNCHANGED batchVars

FileGetAllDataframes ==
    /\ call.op = "get_all_dataframes" /\ ret = NoRet
    /\ LET r == GetAllDataframes(call.dir, raw)
       IN  ret' = r.outcome /\ reads' = reads \o r.reads
           /\ stdout' = stdout \o r.stdout
    /\ UNCHANGED <<config, raw, out, call>>
    /\ UNCHANGED batchVars

FileCombineDataframes ==
    /\ call.op = "combine_dataframes" /\ ret = NoRet
    /\ LET r == CombineDataframes(call.dir, raw, call.ignore_index)
       IN  ret' = r.outcome /\ reads' = reads \o r.reads
           /\ stdout' = stdout \o r.stdout
    /\ UNCHANGED <<config, raw, out, call>>
    /\ UNCHANGED batchVars

NextFile == FileGetDataframe \/ FileGetAllDataframes \/ FileCombineDataframes

SpecFile == InitFile /\ [][NextFile]_vars

(***************************************************************************)
(* SpecStd: standardize_columns on the tables read_csv produces (distinct  *)
(* column names, rows indexed 0..n-1) under every small column policy.     *)
(***************************************************************************)
ColNames == {"A", "B", "C"}

ColumnPolicy(drop, rename, target) ==
    VDict([columns |->
        VDict([drop |-> VList(drop), rename |-> RenameDict(rename),
               target |-> VList(target)])])

\* rename mappings of up to MaxRename items old -> new, old # new, no old
\* name twice (a YAML mapping has each key once)
RenameMaps ==
    {r \in SeqsUpTo({p \in ColNames \X ColNames : p[1] # p[2]}, MaxRename) :
        \A i, j \in DOMAIN r : r[i][1] = r[j][1] => i = j}

InitStd ==
    /\ \E drop \in SeqsUpTo(ColNames, MaxDrop), rename \in RenameMaps,
          target \in SeqsUpTo(ColNames, MaxTarget) :
            config = ColumnPolicy(drop, rename, target)
    /\ \E header \in DistinctSeqsUpTo(ColNames, MaxCols) :
            call = [op |-> "standardize_columns",
                    df |-> CsvTable("df", header, MaxRows)]
    /\ ret = NoRet
    /\ IdleBatch /\ IdleFs

StdCall ==
    /\ call.op = "standardize_columns" /\ ret = NoRet
    /\ LET r == StandardizeColumns(call.df, config)
       IN  /\ ret' = r.outcome
           /\ log' = log \o r.log
    /\ UNCHANGED <<config, raw, out, reads, stdout, call>>
    /\ UNCHANGED <<pc, csv_files, idx, successful, failed, df, exc, steps>>

NextStd == StdCall

SpecStd == InitStd /\ [][NextStd]_vars

StdDone == call.op = "standardize_columns" /\ ret # NoRet

\* The column names left by dropping the drop list from the input's columns
\* and then renaming, stated on sets.
PostDropRenameNames ==
    LET rename_map == ColumnRenameMap(config).m
        kept == Range(ColumnNames(call.df.cols)) \ Range(ColumnsToDrop(config))
    IN  {IF n \in DOMAIN rename_map THEN rename_map[n].s ELSE n : n \in kept}

\* C4 as stated: whenever standardize_columns returns, the returned table's
\* column sequence equals target_columns exactly, and each returned column
\* holds the cells of a kept input column that carries that name after the
\* rename.
C4_AsStated ==
    (StdDone /\ ret.kind = "return") =>
        /\ ColumnNames(ret.value.cols) = TargetColumns(config)
        /\ \A j \in DOMAIN ret.value.cols :
              \E i \in DOMAIN call.df.cols :
                  /\ call.df.cols[i].name \notin Range(ColumnsToDrop(config))
                  /\ ret.value.cols[j].vals = call.df.cols[i].vals

\* C5: standardize_columns fails with the missing-columns error if and only
\* if some entry of target_columns is not among the column names that remain
\* after the drop step followed by the rename step, and the error names
\* exactly those entries.
C5_MissingIff ==
    StdDone =>
        /\ (ret.kind = "raise") <=>
              (\E t \in Range(TargetColumns(config)) : t \notin PostDropRenameNames)
        /\ ret.kind = "raise" =>
              /\ ret.exc.type = "ValueError"
              /\ ret.exc.missing = Range(TargetColumns(config)) \ PostDropRenameNames

\* A target column that the input has is dropped, nothing is renamed onto
\* it, and the call fails naming it.
C5_Witness ==
    /\ StdDone /\ ret.kind = "raise"
    /\ \E t \in Range(TargetColumns(config)) :
          /\ t \in Range(ColumnNames(call.df.cols))
          /\ t \in Range(ColumnsToDrop(config))
          /\ t \in ret.exc.missing

\* A target column that the input lacks is produced by a rename and the
\* call returns.
C5_WitnessRename ==
    /\ StdDone /\ ret.kind = "return"
    /\ \E t \in Range(TargetColumns(config)) :
          t \notin Range(ColumnNames(call.df.cols))

\* The info records of the call: the columns logged as dropped and the
\* (old, new) pairs logged as renamed.
DroppedLogged == {k \in DOMAIN log : log[k].msg = "Dropped"}

RenamedLogged == {k \in DOMAIN log : log[k].msg = "Renamed"}

\* The columns the drop step removes, and the rename items whose old name is
\* a column immediately before the rename step.
ActuallyDropped ==
    Range(ColumnNames(call.df.cols)) \cap Range(ColumnsToDrop(config))

ActuallyRenamed ==
    {it \in Range(ColumnRenameMap(config).items) :
        it[1] \in Range(ColumnNames(call.df.cols)) \ Range(ColumnsToDrop(config))}

\* The 'Dropped' half of C12: one record per column the drop step removed.
C12_DroppedExact ==
    StdDone =>
        /\ {log[k].col : k \in DroppedLogged} = ActuallyDropped
        /\ Cardinality(DroppedLogged) = Cardinality(ActuallyDropped)

\* C12 as stated: a 'Dropped' record is logged for exactly the columns the
\* drop step removed, and a 'Renamed old to new' record for exactly the
\* columns that existed under the old name immediately before the rename
\* step; no rename is logged for a column the drop step already removed.
C12_AsStated ==
    StdDone =>
        /\ {log[k].col : k \in DroppedLogged} = ActuallyDropped
        /\ Cardinality(DroppedLogged) = Cardinality(ActuallyDropped)
        /\ {<<log[k].old, log[k].new>> : k \in RenamedLogged} = ActuallyRenamed
        /\ Cardinality(RenamedLogged) = Cardinality(ActuallyRenamed)

(***************************************************************************)
(* SpecBatch: process_all_datasets and the process_dataset calls it makes, *)
(* one step per statement group, over a raw-data directory of up to        *)
(* MaxFiles entries.                                                       *)
(***************************************************************************)
ProjectRoot == "project_root"

\* Config.get_path(key)
GetPath(cfg, keys) ==
    LET relative_path == Get(cfg, keys, VNone)
    IN  IF relative_path = VNone
        THEN Raise([type |-> "ValueError", msg |-> "Path not found in config",
                    key |-> keys])
        ELSE Return(JoinPath(ProjectRoot, relative_path.s))

\* Config.raw_data_dir, Config.processed_data_dir, Config.output_prefix,
\* Config.save_index
RawDataDir(cfg) == GetPath(cfg, <<"paths", "raw_data">>)

ProcessedDataDir(cfg) == GetPath(cfg, <<"paths", "processed_data">>)

OutputPrefix(cfg) == Get(cfg, <<"processing", "output_prefix">>, VStr("processed_")).s

SaveIndex(cfg) == Truthy(Get(cfg, <<"processing", "save_index">>, VBool(FALSE)))

CurrentFile == csv_files[idx]

Info(msg) == [level |-> "info", msg |-> msg]

\* process_all_datasets, lines 156-157: both directory properties are read
\* for the opening log lines, outside the try
PAStart ==
    /\ pc = "start"
    /\ IF RawDataDir(config).kind = "raise"
       THEN pc' = "raised" /\ exc' = RawDataDir(config).exc /\ UNCHANGED log
       ELSE IF ProcessedDataDir(config).kind = "raise"
       THEN /\ pc' = "raised" /\ exc' = ProcessedDataDir(config).exc
            /\ log' = log \o <<Info("Processing all datasets from")>>
       ELSE /\ pc' = "enumerate" /\ UNCHANGED exc
            /\ log' = log \o <<Info("Processing all datasets from"),
                               Info("Output directory")>>
    /\ UNCHANGED <<config, raw, out, csv_files, idx, successful, failed, df,
                   steps, reads, stdout, call, ret>>

\* process_all_datasets, lines 159-173: os.listdir, the .csv filter, the
\* early return on an empty list, the counters
PAEnumerateNoEarlyReturn ==
    /\ pc = "enumerate"
    /\ IF ~PathExists(raw)
       THEN /\ exc' = Error("FileNotFoundError", "No such file or directory",
                            RawDataDir(config).value)
            /\ pc' = "pa_outer_except"
            /\ UNCHANGED <<csv_files, idx, successful, failed, log>>
       ELSE IF ~PathIsDir(raw)
       THEN /\ exc' = Error("NotADirectoryError", "Not a directory",
                            RawDataDir(config).value)
            /\ pc' = "pa_outer_except"
            /\ UNCHANGED <<csv_files, idx, successful, failed, log>>
       ELSE LET found == SelectSeq(ListDir(raw), EndsWithCsv)
            IN  IF found = <<>>
                THEN /\ log' = log \o <<[level |-> "warning",
                                         msg |-> "No CSV files found"]>>
                     /\ successful' = 0 /\ failed' = 0
                     /\ pc' = "summary"
                     /\ UNCHANGED <<csv_files, idx, exc>>
                ELSE /\ csv_files' = found
                     /\ log' = log \o <<[level |-> "info", msg |-> "Found",
                                         files |-> found]>>
                     /\ successful' = 0 /\ failed' = 0
                     /\ idx' = 1
                     /\ pc' = "pd_begin"
                     /\ UNCHANGED exc
    /\ UNCHANGED <<config, raw, out, df, steps, reads, stdout, call, ret>>

PAEnumerate ==
    /\ pc = "enumerate"
    /\ IF ~PathExists(raw)
       THEN /\ exc' = Error("FileNotFoundError", "No such file or directory",
                            RawDataDir(config).value)
            /\ pc' = "pa_outer_except"
            /\ UNCHANGED <<csv_files, idx, successful, failed, log>>
       ELSE IF ~PathIsDir(raw)
       THEN /\ exc' = Error("NotADirectoryError", "Not a directory",
                            RawDataDir(config).value)
            /\ pc' = "pa_outer_except"
            /\ UNCHANGED <<csv_files, idx, successful, failed, log>>
       ELSE LET found == SelectSeq(ListDir(raw), EndsWithCsv)
            IN  IF found = <<>>
                THEN /\ log' = log \o <<[level |-> "warning",
                                         msg |-> "No CSV files found"]>>
                     /\ pc' = "returned"
                     /\ UNCHANGED <<csv_files, idx, successful, failed, exc>>
                ELSE /\ csv_files' = found
                     /\ log' = log \o <<[level |-> "info", msg |-> "Found",
                                         files |-> found]>>
                     /\ successful' = 0 /\ failed' = 0
                     /\ idx' = 1
                     /\ pc' = "pd_begin"
                     /\ UNCHANGED exc
    /\ UNCHANGED <<config, raw, out, df, steps, reads, stdout, call, ret>>

\* process_dataset, line 107
PDBegin ==
    /\ pc = "pd_begin"
    /\ log' = log \o <<[level |-> "info", msg |-> "Processing",
                        file |-> CurrentFile]>>
    /\ pc' = "pd_read"
    /\ UNCHANGED <<config, raw, out, csv_files, idx, successful, failed, df,
                   exc, steps, reads, stdout, call, ret>>

\* process_dataset, lines 111-113
PDRead ==
    /\ pc = "pd_read"
    /\ LET dir == RawDataDir(config)
           r == GetDataframe(CurrentFile, dir.value, raw)
       IN  IF dir.kind = "raise"
           THEN /\ exc' = dir.exc /\ pc' = "pd_except"
                /\ steps' = Append(steps, [file |-> CurrentFile,
                                           result |-> "fail", stage |-> "read"])
                /\ UNCHANGED <<df, log, reads>>
           ELSE /\ reads' = reads \o r.reads
                /\ IF r.outcome.kind = "raise"
                   THEN /\ exc' = r.outcome.exc /\ pc' = "pd_except"
                        /\ steps' = Append(steps,
                               [file |-> CurrentFile, result |-> "fail",
                                stage |-> "read"])
                        /\ UNCHANGED <<df, log>>
                   ELSE /\ df' = r.outcome.value
                        /\ log' = log \o <<Info("Original shape"),
                                           Info("Original columns")>>
                        /\ pc' = "pd_standardize"
                        /\ UNCHANGED <<exc, steps>>
    /\ UNCHANGED <<config, raw, out, csv_files, idx, successful, failed,
                   stdout, call, ret>>

\* process_dataset, lines 116-118
PDStandardizeUnchecked ==
    /\ pc = "pd_standardize"
    /\ LET r == StandardizeColumns(df, config)
       IN  /\ df' = IF r.outcome.kind = "raise" THEN df ELSE r.outcome.value
           /\ log' = log \o r.log \o <<Info("Processed shape"),
                                       Info("Processed columns")>>
           /\ pc' = "pd_write"
           /\ UNCHANGED <<exc, steps>>
    /\ UNCHANGED <<config, raw, out, csv_files, idx, successful, failed,
                   reads, stdout, call, ret>>

\* process_dataset, lines 116-118: standardize_columns and the shape log
PDStandardize ==
    /\ pc = "pd_standardize"
    /\ LET r == StandardizeColumns(df, config)
       IN  IF r.outcome.kind = "raise"
           THEN /\ exc' = r.outcome.exc /\ pc' = "pd_except"
                /\ log' = log \o r.log
                /\ steps' = Append(steps,
                       [file |-> CurrentFile, result |-> "fail",
                        stage |-> "standardize"])
                /\ UNCHANGED df
           ELSE /\ df' = r.outcome.value
                /\ log' = log \o r.log \o <<Info("Processed shape"),
                                            Info("Processed columns")>>
                /\ pc' = "pd_write"
                /\ UNCHANGED <<exc, steps>>
    /\ UNCHANGED <<config, raw, out, csv_files, idx, successful, failed,
                   reads, stdout, call, ret>>

\* df_processed.to_csv(output_path, index=...): the file of that name is
\* created or replaced
WriteCsv(node, name, table, index) ==
    [kind |-> "dir",
     files |-> {w \in node.files : w.name # name}
               \cup {[name |-> name, table |-> table, index |-> index]}]

\* process_dataset, lines 121-138: makedirs, to_csv, the preview
PDWrite ==
    /\ pc = "pd_write"
    /\ LET dir == ProcessedDataDir(config)
       IN  IF dir.kind = "raise" \/ out.kind = "file"
           THEN /\ exc' = IF dir.kind = "raise" THEN dir.exc
                          ELSE Error("FileExistsError", "File exists", dir.value)
                /\ pc' = "pd_except"
                /\ steps' = Append(steps,
                       [file |-> CurrentFile, result |-> "fail",
                        stage |-> "write"])
                /\ UNCHANGED <<out, log>>
           ELSE /\ out' = WriteCsv(
                       IF out.kind = "missing"
                       THEN [kind |-> "dir", files |-> {}] ELSE out,
                       JoinPath(dir.value,
                                <<OutputPrefix(config), CurrentFile>>),
                       df, SaveIndex(config))
                /\ log' = log \o <<[level |-> "info", msg |-> "Saved to",
                                    file |-> CurrentFile],
                                   Info("First rows of processed data"),
                                   Info("preview")>>
                /\ steps' = Append(steps,
                       [file |-> CurrentFile, result |-> "ok",
                        stage |-> "write"])
                /\ pc' = "pa_success"
                /\ UNCHANGED exc
    /\ UNCHANGED <<config, raw, csv_files, idx, successful, failed, df,
                   reads, stdout, call, ret>>

\* process_dataset, lines 140-143: the handler logs the failure
PDLogErrorSilent ==
    /\ pc = "pd_except"
    /\ pc' = "pd_decide"
    /\ UNCHANGED <<config, raw, out, csv_files, idx, successful, failed, df,
                   exc, steps, reads, stdout, call, ret, log>>

PDLogError ==
    /\ pc = "pd_except"
    /\ log' = log \o <<[level |-> "error", msg |-> "Error processing",
                        file |-> CurrentFile, exc |-> exc]>>
    /\ pc' = "pd_decide"
    /\ UNCHANGED <<config, raw, out, csv_files, idx, successful, failed, df,
                   exc, steps, reads, stdout, call, ret>>

\* process_dataset, lines 144-145: re-raise unless continue_on_error; else
\* the function returns normally
PDDecide ==
    /\ pc = "pd_decide"
    /\ IF ~ContinueOnError(config)
       THEN pc' = "pa_except" /\ UNCHANGED exc
       ELSE pc' = "pa_success" /\ exc' = NoExc
    /\ UNCHANGED <<config, raw, out, csv_files, idx, successful, failed, df,
                   log, steps, reads, stdout, call, ret>>

\* process_all_datasets, line 179
PASuccess ==
    /\ pc = "pa_success"
    /\ successful' = successful + 1
    /\ IF idx < Len(csv_files)
       THEN idx' = idx + 1 /\ pc' = "pd_begin"
       ELSE pc' = "summary" /\ UNCHANGED idx
    /\ UNCHANGED <<config, raw, out, csv_files, failed, log, df, exc, steps,
                   reads, stdout, call, ret>>

\* process_all_datasets, lines 180-183
PALogError ==
    /\ pc = "pa_except"
    /\ log' = log \o <<[level |-> "error", msg |-> "Failed to process",
                        file |-> CurrentFile, exc |-> exc]>>
    /\ failed' = failed + 1
    /\ pc' = "pa_decide"
    /\ UNCHANGED <<config, raw, out, csv_files, idx, successful, df, exc,
                   steps, reads, stdout, call, ret>>

\* process_all_datasets, lines 184-185
PADecideAlwaysContinue ==
    /\ pc = "pa_decide"
    /\ exc' = NoExc
    /\ IF idx < Len(csv_files)
       THEN idx' = idx + 1 /\ pc' = "pd_begin"
       ELSE pc' = "summary" /\ UNCHANGED idx
    /\ UNCHANGED <<config, raw, out, csv_files, successful, failed, log, df,
                   steps, reads, stdout, call, ret>>

PADecide ==
    /\ pc = "pa_decide"
    /\ IF ~ContinueOnError(config)
       THEN pc' = "pa_outer_except" /\ UNCHANGED <<exc, idx>>
       ELSE /\ exc' = NoExc
            /\ IF idx < Len(csv_files)
               THEN idx' = idx + 1 /\ pc' = "pd_begin"
               ELSE pc' = "summary" /\ UNCHANGED idx
    /\ UNCHANGED <<config, raw, out, csv_files, successful, failed, log, df,
                   steps, reads, stdout, call, ret>>

\* process_all_datasets, lines 187-191
PASummary ==
    /\ pc = "summary"
    /\ log' = log \o <<Info("separator"),
                       [level |-> "info", msg |-> "Processing complete!",
                        success |-> successful, failed |-> failed]>>
    /\ pc' = "returned"
    /\ UNCHANGED <<config, raw, out, csv_files, idx, successful, failed, df,
                   exc, steps, reads, stdout, call, ret>>

\* process_all_datasets, lines 193-198
PAOuterExceptAlwaysRaise ==
    /\ pc = "pa_outer_except"
    /\ log' = log \o <<[level |-> "error",
                        msg |-> "Error during batch processing", exc |-> exc]>>
    /\ pc' = "raised" /\ UNCHANGED exc
    /\ UNCHANGED <<config, raw, out, csv_files, idx, successful, failed, df,
                   steps, reads, stdout, call, ret>>

PAOuterExcept ==
    /\ pc = "pa_outer_except"
    /\ log' = log \o <<[level |-> "error",
                        msg |-> "Error during batch processing", exc |-> exc]>>
    /\ IF ~ContinueOnError(config)
       THEN pc' = "raised" /\ UNCHANGED exc
       ELSE pc' = "returned" /\ exc' = NoExc
    /\ UNCHANGED <<config, raw, out, csv_files, idx, successful, failed, df,
                   steps, reads, stdout, call, ret>>

\* The configurations of a batch run: each path key present or not,
\* continue_on_error absent (default true), true or false, and one column
\* policy.
Section(present, key, value) == IF present THEN (key :> value) ELSE <<>>

BatchConfig(rawKey, procKey, coe) ==
    VDict([paths |-> VDict(Section(rawKey, "raw_data", VStr("data/raw"))
                           @@ Section(procKey, "processed_data",
                                      VStr("data/processed"))),
           processing |-> VDict(Section(coe # "absent", "continue_on_error",
                                        VBool(coe = "true"))),
           columns |-> VDict([drop |-> VList(<<"C">>),
                              rename |-> RenameDict(<<<<"b", "B">>>>),
                              target |-> VList(<<"B", "A">>)])])

BatchConfigs ==
    {BatchConfig(TRUE, TRUE, coe) : coe \in {"absent", "true", "false"}}
    \cup {BatchConfig(FALSE, TRUE, coe) : coe \in {"true", "false"}}
    \cup {BatchConfig(TRUE, FALSE, coe) : coe \in {"true", "false"}}

BatchContents ==
    {CsvContent(<<"A", "B", "C">>, 1), CsvContent(<<"b", "A">>, MaxRows),
     CsvContent(<<"A", "C">>, 1), [kind |-> "malformed"]}

BatchDirs ==
    {d \in DirNodes(BatchContents) :
        \A i \in DOMAIN d.entries :
            d.entries[i].name.ext # ".csv" =>
                d.entries[i].content.kind = "malformed"}

InitBatch ==
    /\ config \in BatchConfigs
    /\ raw \in {[kind |-> "missing"], [kind |-> "file"]} \cup BatchDirs
    /\ out \in {[kind |-> "missing"], [kind |-> "file"],
                [kind |-> "dir", files |-> {}]}
    /\ pc = "start" /\ csv_files = <<>> /\ idx = 0 /\ successful = 0
    /\ failed = 0 /\ log = <<>> /\ df = NoRet /\ exc = NoExc /\ steps = <<>>
    /\ reads = <<>> /\ stdout = <<>>
    /\ call = [op |-> "process_all_datasets"] /\ ret = NoRet

NextBatch ==
    \/ PAStart \/ PAEnumerate
    \/ PDBegin \/ PDRead \/ PDStandardize \/ PDWrite \/ PDLogError \/ PDDecide
    \/ PASuccess \/ PALogError \/ PADecide \/ PASummary \/ PAOuterExcept

SpecBatch == InitBatch /\ [][NextBatch]_vars

(***************************************************************************)
(* Claims about the batch run, under SpecBatch.                            *)
(***************************************************************************)
Coe == ContinueOnError(config)

FailedSteps == {i \in DOMAIN steps : steps[i].result = "fail"}

CompletedSteps == {i \in DOMAIN steps : steps[i].result = "ok"}

\* the files in the processed-data directory
OutFiles == IF out.kind = "dir" THEN out.files ELSE {}

SummaryLogged == \E k \in DOMAIN log : log[k].msg = "Processing complete!"

ErrorLogged(msg, f) ==
    \E k \in DOMAIN log :
        /\ log[k].level = "error" /\ log[k].msg = msg
        /\ log[k].file = f

\* C1 as stated: with continue_on_error true, the summary reports as
\* succeeded the number of files whose read-standardize-write step completed
\* and as failed the number of files in which it failed.
C1_AsStated ==
    Coe =>
        \A k \in DOMAIN log :
            log[k].msg = "Processing complete!" =>
                /\ log[k].success = Cardinality(CompletedSteps)
                /\ log[k].failed = Cardinality(FailedSteps)

\* C2: with continue_on_error false, once the step of a file has failed the
\* run is on its way out of process_all_datasets with that exception: the
\* failed file is the last one touched, no later file is announced, read or
\* written, no summary is logged, and the run cannot stop short of raising.
C2_AbortOnFirstFailure ==
    (~Coe /\ FailedSteps # {}) =>
        /\ FailedSteps = {Len(steps)}
        /\ idx = Len(steps)
        /\ pc \in {"pd_except", "pd_decide", "pa_except", "pa_decide",
                   "pa_outer_except", "raised"}
        /\ exc # NoExc
        /\ pc # "raised" => ENABLED NextBatch
        /\ ~SummaryLogged
        /\ \A r \in Range(reads) :
              \E j \in 1..idx : r = JoinPath(RawDataDir(config).value, csv_files[j])
        /\ \A w \in OutFiles :
              \E j \in 1..(idx - 1) :
                  w.name = JoinPath(ProcessedDataDir(config).value,
                                    <<OutputPrefix(config), csv_files[j]>>)
        /\ \A k \in DOMAIN log :
              log[k].msg = "Processing" =>
                  \E j \in 1..idx : log[k].file = csv_files[j]

\* With continue_on_error false a failure has propagated out of the run
\* while a later file of the enumeration was never touched.
C2_Witness ==
    /\ ~Coe /\ pc = "raised" /\ FailedSteps # {}
    /\ idx < Len(csv_files)
    /\ Len(steps) = idx

\* The enumeration of the raw-data directory fails: its path key is absent
\* from the configuration, or the path is missing or is not a directory.
RawKeyAbsent == RawDataDir(config).kind = "raise"

ListDirFails == ~RawKeyAbsent /\ raw.kind # "dir"

\* C3 as stated: a failure while enumerating the raw-data directory always
\* propagates out of process_all_datasets, for both values of
\* continue_on_error.
C3_AsStated == (RawKeyAbsent \/ ListDirFails) => pc # "returned"

\* C3 (amended): an absent raw-data path key propagates out of
\* process_all_datasets for both values of continue_on_error, raised before
\* the try block; a missing directory or a path that is not a directory is
\* logged as an error by the batch handler and propagates only when
\* continue_on_error is false: when it is true process_all_datasets returns
\* normally, with no file processed and no summary.
C3_EnumerationFailure ==
    /\ RawKeyAbsent =>
          /\ pc \in {"start", "raised"}
          /\ pc = "raised" => exc.type = "ValueError" /\ log = <<>>
    /\ (ListDirFails /\ ProcessedDataDir(config).kind = "return") =>
          /\ pc \in {"start", "enumerate", "pa_outer_except", "raised", "returned"}
          /\ pc # "start" => ENABLED NextBatch \/ pc \in {"raised", "returned"}
          /\ pc = "raised" => ~Coe /\ exc.type \in {"FileNotFoundError", "NotADirectoryError"}
          /\ pc = "returned" => Coe
          /\ pc \in {"raised", "returned"} =>
                /\ log[Len(log)].level = "error"
                /\ log[Len(log)].msg = "Error during batch processing"
          /\ steps = <<>> /\ reads = <<>> /\ csv_files = <<>>
          /\ OutFiles = {}
          /\ ~SummaryLogged

\* The raw-data directory does not exist, continue_on_error is true, and
\* process_all_datasets has returned normally after logging the error.
C3_Witness ==
    /\ raw.kind = "missing" /\ ~RawKeyAbsent /\ Coe
    /\ pc = "returned"
    /\ log[Len(log)].msg = "Error during batch processing"

\* C6: every failure of a file's step has an error record naming that file
\* in the log by the time the continue/abort decision is taken: the only
\* state with a failure not yet logged is the entry of the handler.
C6_LoggedBeforeDecision ==
    /\ \A i \in FailedSteps :
          \/ pc = "pd_except" /\ i = Len(steps)
          \/ ErrorLogged("Error processing", steps[i].file)
    /\ pc = "pd_decide" =>
          /\ log[Len(log)].level = "error"
          /\ log[Len(log)].msg = "Error processing"
          /\ log[Len(log)].file = CurrentFile
          /\ log[Len(log)].exc = exc

\* With continue_on_error true a failed file has been skipped, the run is
\* past the decision, and the error record for the file is in the log.
C6_Witness ==
    /\ Coe /\ pc = "pa_success"
    /\ Len(steps) = idx /\ steps[idx].result = "fail"
    /\ ErrorLogged("Error processing", csv_files[idx])

\* With continue_on_error false a failed file is about to be propagated and
\* the error record for the file is in the log.
C6_WitnessAbort ==
    /\ ~Coe /\ pc = "pa_except"
    /\ ErrorLogged("Error processing", csv_files[idx])

\* The raw-data directory exists, both path keys are configured, and no
\* entry of the listing ends in .csv.
NoCsvEntries ==
    /\ RawDataDir(config).kind = "return"
    /\ ProcessedDataDir(config).kind = "return"
    /\ raw.kind = "dir"
    /\ \A i \in DOMAIN raw.entries : raw.entries[i].name.ext # ".csv"

\* C11 as stated: when no entry of the raw-data directory ends in .csv the
\* run returns without error and its summary shows zero files processed.
C11_AsStated ==
    (NoCsvEntries /\ pc \in {"returned", "raised"}) =>
        /\ pc = "returned"
        /\ \E k \in DOMAIN log :
              /\ log[k].msg = "Processing complete!"
              /\ log[k].success = 0 /\ log[k].failed = 0

\* C11 (amended): when no entry of the raw-data directory ends in .csv the
\* run logs a warning and returns without error for either value of
\* continue_on_error: no file is announced, read or processed, nothing is
\* written to the output directory, no error is logged, and the run returns
\* before the summary step, so no summary is logged at all.
C11_NoCsvFiles ==
    NoCsvEntries =>
        /\ pc \in {"start", "enumerate", "returned"}
        /\ pc # "returned" => ENABLED NextBatch
        /\ exc = NoExc
        /\ steps = <<>> /\ reads = <<>> /\ csv_files = <<>> /\ OutFiles = {}
        /\ \A k \in DOMAIN log : log[k].level # "error" /\ log[k].msg # "Processing"
        /\ ~SummaryLogged
        /\ pc = "returned" =>
              /\ log[Len(log)].level = "warning"
              /\ log[Len(log)].msg = "No CSV files found"

\* A directory holding only a non-.csv entry: the run has returned after
\* the warning, with continue_on_error false.
C11_Witness ==
    /\ NoCsvEntries /\ raw.entries # <<>> /\ ~Coe
    /\ pc = "returned"
    /\ log[Len(log)].msg = "No CSV files found"

\* The path process_dataset writes the output of input file f to.
OutputPath(f) ==
    JoinPath(ProcessedDataDir(config).value, <<OutputPrefix(config), f>>)

\* What the raw-data directory holds under the name f.
ContentOf(f) ==
    raw.entries[CHOOSE i \in DOMAIN raw.entries : raw.entries[i].name = f].content

\* The file parses and, after the drop and the rename, has every target column.
Standardizable(content) ==
    /\ content.kind = "csv"
    /\ LET rename_map == ColumnRenameMap(config).m
           kept == Range(content.header) \ Range(ColumnsToDrop(config))
       IN  Range(TargetColumns(config)) \subseteq
              {IF n \in DOMAIN rename_map THEN rename_map[n].s ELSE n : n \in kept}

\* The written file w is the standardized table of input file f: the target
\* columns in order, every cell taken from f's own rows.
OutputOf(w, f) ==
    /\ w.name = OutputPath(f)
    /\ w.index = SaveIndex(config)
    /\ ColumnNames(w.table.cols) = TargetColumns(config)
    /\ w.table.index = [r \in 1..ContentOf(f).nrows |-> r - 1]
    /\ \A c \in DOMAIN w.table.cols :
          /\ Len(w.table.cols[c].vals) = ContentOf(f).nrows
          /\ \A r \in DOMAIN w.table.cols[c].vals :
                /\ w.table.cols[c].vals[r][1] = f.stem
                /\ w.table.cols[c].vals[r][2] \in Range(ContentOf(f).header)
                /\ w.table.cols[c].vals[r][3] = r

\* C13: an output file exists only for an input file that this run has read
\* and standardized successfully, and holds that file's own standardized
\* table; a file whose step failed has no output file; and with
\* continue_on_error true, once the run has ended every input file that
\* parses and has the target columns has its output, whatever happened to
\* the other files.
C13_OutputOnlyAfterSuccess ==
    /\ \A w \in OutFiles :
          \E j \in 1..Len(steps) :
              /\ steps[j].file = csv_files[j]
              /\ steps[j].result = "ok"
              /\ JoinPath(RawDataDir(config).value, csv_files[j]) \in Range(reads)
              /\ Standardizable(ContentOf(csv_files[j]))
              /\ OutputOf(w, csv_files[j])
    /\ \A i \in FailedSteps :
          \A w \in OutFiles : w.name # OutputPath(steps[i].file)
    /\ (/\ Coe /\ pc \in {"returned", "raised"}
        /\ RawDataDir(config).kind = "return"
        /\ ProcessedDataDir(config).kind = "return"
        /\ raw.kind = "dir" /\ out.kind # "file") =>
          \A i \in DOMAIN raw.entries :
              (/\ raw.entries[i].name.ext = ".csv"
               /\ Standardizable(raw.entries[i].content)) =>
                  \E w \in OutFiles : OutputOf(w, raw.entries[i].name)

\* With continue_on_error true the run has ended; a file whose read or
\* standardization failed has no output, and a file enumerated after it has
\* its output.
C13_Witness ==
    /\ Coe /\ pc = "returned"
    /\ \E i, j \in DOMAIN steps :
          /\ i < j
          /\ steps[i].result = "fail"
          /\ steps[i].stage \in {"read", "standardize"}
          /\ steps[j].result = "ok"
          /\ \A w \in OutFiles : w.name # OutputPath(csv_files[i])
          /\ \E w \in OutFiles : OutputOf(w, csv_files[j])

(***************************************************************************)
(* Claims about the table I/O helpers, under SpecFile.                     *)
(***************************************************************************)
\* The positions of the listing whose entry ends in .csv, and among them
\* those whose file parses.
CsvPositions == {i \in DOMAIN raw.entries : raw.entries[i].name.ext = ".csv"}

LoadablePositions == {i \in CsvPositions : raw.entries[i].content.kind = "csv"}

\* C7: on an existing directory get_all_dataframes returns, never fails,
\* and returns exactly one table per .csv entry that loads, in listing
\* order; every .csv entry that fails to load is printed as a warning and
\* skipped, whatever continue_on_error is; no .csv entry gives the empty
\* list.
C7_OnePerLoadable ==
    (call.op = "get_all_dataframes" /\ ret # NoRet /\ raw.kind = "dir") =>
        /\ ret.kind = "return"
        /\ Len(ret.value) = Cardinality(LoadablePositions)
        /\ \A k \in DOMAIN ret.value :
              \E i \in LoadablePositions :
                  /\ Cardinality({j \in LoadablePositions : j < i}) = k - 1
                  /\ ret.value[k] = CsvTable(raw.entries[i].name.stem,
                                             raw.entries[i].content.header,
                                             raw.entries[i].content.nrows)
        /\ {w.file : w \in Range(stdout)} =
              {raw.entries[i].name : i \in CsvPositions \ LoadablePositions}
        /\ Len(stdout) = Cardinality(CsvPositions \ LoadablePositions)
        /\ (CsvPositions = {} => ret.value = <<>>)

\* A .csv entry that does not parse comes before one that does: the call
\* returns the later table and warns about the earlier file.
C7_Witness ==
    /\ call.op = "get_all_dataframes" /\ ret # NoRet /\ raw.kind = "dir"
    /\ \E i \in CsvPositions \ LoadablePositions, j \in LoadablePositions : i < j
    /\ ret.kind = "return" /\ Len(ret.value) >= 1 /\ Len(stdout) >= 1

\* C8: get_dataframe fails with the directory-not-found error when dir does
\* not exist and with the not-a-directory error when dir is a file, without
\* load_csv having been given any path; only for an existing directory is
\* load_csv given the joined path, and its outcome is the call's.
C8_DirChecksFirst ==
    (call.op = "get_dataframe" /\ ret # NoRet) =>
        /\ raw.kind = "missing" =>
              /\ ret = Raise(Error("FileNotFoundError", "Directory not found", call.dir))
              /\ reads = <<>>
        /\ raw.kind = "file" =>
              /\ ret = Raise(Error("NotADirectoryError", "Path is not a directory", call.dir))
              /\ reads = <<>>
        /\ raw.kind = "dir" =>
              /\ reads = <<JoinPath(call.dir, call.filename)>>
              /\ ret = LoadCsv(raw, call.dir, call.filename)
        /\ reads # <<>> => raw.kind = "dir"

\* dir is a file and the call has failed with the not-a-directory error.
C8_Witness ==
    /\ call.op = "get_dataframe" /\ raw.kind = "file"
    /\ ret.kind = "raise" /\ ret.exc.type = "NotADirectoryError"
    /\ reads = <<>>

\* The number of rows loaded from the listing positions before i.
RECURSIVE RowsBefore(_)
RowsBefore(i) ==
    IF i <= 1 THEN 0
    ELSE RowsBefore(i - 1)
         + (IF (i - 1) \in LoadablePositions
            THEN raw.entries[i - 1].content.nrows ELSE 0)

TotalRows == RowsBefore(Len(raw.entries) + 1)

\* C9: combine_dataframes returns None when no table was loaded; otherwise
\* the returned table has N rows, N the sum of the loaded tables' row
\* counts, each loaded table's cells standing at its rows in listing order;
\* its row index is 0..N-1 when ignore_index is true and, when it is false,
\* restarts at 0 with every source table.
C9_Combine ==
    (call.op = "combine_dataframes" /\ ret # NoRet /\ raw.kind = "dir") =>
        /\ ret.kind = "return"
        /\ (LoadablePositions = {}) <=> (ret.value = VNone)
        /\ LoadablePositions # {} =>
              /\ NRows(ret.value) = TotalRows
              /\ \A c \in DOMAIN ret.value.cols : Len(ret.value.cols[c].vals) = TotalRows
              /\ call.ignore_index =>
                    ret.value.index = [r \in 1..TotalRows |-> r - 1]
              /\ \A i \in LoadablePositions :
                    \A r \in 1..raw.entries[i].content.nrows :
                        /\ ~call.ignore_index =>
                              ret.value.index[RowsBefore(i) + r] = r - 1
                        /\ \A c \in DOMAIN ret.value.cols :
                              ret.value.cols[c].vals[RowsBefore(i) + r] =
                                 IF ret.value.cols[c].name
                                       \in Range(raw.entries[i].content.header)
                                 THEN <<raw.entries[i].name.stem,
                                        ret.value.cols[c].name, r>>
                                 ELSE NaN

\* Two tables with rows are combined without ignore_index and the index
\* value 0 stands at two rows.
C9_Witness ==
    /\ call.op = "combine_dataframes" /\ ret.kind = "return"
    /\ ~call.ignore_index
    /\ ret.value # VNone
    /\ \E r1, r2 \in DOMAIN ret.value.index :
          r1 # r2 /\ ret.value.index[r1] = 0 /\ ret.value.index[r2] = 0

=============================================================================
